---- MODULE Spec2Model ----
(***************************************************************************)
(* Receding-horizon (MPC) charging controller of the EV charging network:  *)
(* EVModel.__init__ / EVModel.update (evmodel.py), AlgLP2v2 (lp_alg.py),   *)
(* getActiveEV / checkEV / updateCharger (ev_funcs.py).                    *)
(*                                                                         *)
(* Conventions.                                                            *)
(*  - Vehicles, chargers, horizon steps and intervals are indexed from 0   *)
(*    as in the Python code; a table is a function on 0..n-1.              *)
(*  - A row of allEV is the tuple <<demand, arrival, departure, peak>>     *)
(*    (columns 0..3 of the code are components 1..4); a charger's "EV"     *)
(*    list is the tuple <<remaining energy, remaining parking, peak>>.     *)
(*  - Energies, times and peak rates are integers.  A charging rate is     *)
(*    stored as an integer number of 1/RateDen power units, so that every  *)
(*    vertex of the LP polytope (integral right-hand sides, interval       *)
(*    constraint matrix) is representable; a cap or a peak rate of c power *)
(*    units is c * RateDen on that grid.                                   *)
(***************************************************************************)
EXTENDS Integers, Sequences, FiniteSets

(* ------------------------------ bounds -------------------------------- *)
MaxEV == 2          \* at most this many rows in the vehicle table
MaxDemand == 5      \* energy demands of the table are drawn from 0..MaxDemand
MaxArrival == 1     \* arrival indices are drawn from 0..MaxArrival
MaxPeak == 2        \* peak rates are drawn from 1..MaxPeak
MaxCap == 2         \* the (constant) power cap is drawn from 1..MaxCap
MaxTstep == 2       \* tstep is drawn from 1..MaxTstep
opt_horizon == 3    \* evmodel.py:115 sets 60/2*12; scaled down

(* ------------------------- program constants -------------------------- *)
timeint == 2
tmax == opt_horizon
RateDen == timeint

VARIABLES pc, inCtor, allEV, numAllEV, tstep, powerCap, rate, chargerNew,
          charger, chargerIDNew, chargerID, activeEV, numActiveEV, schedule,
          feasible, t, left, histSchedule, lpCalls

vars == <<pc, inCtor, allEV, numAllEV, tstep, powerCap, rate, chargerNew,
          charger, chargerIDNew, chargerID, activeEV, numActiveEV, schedule,
          feasible, t, left, histSchedule, lpCalls>>

(* ------------------------------ helpers ------------------------------- *)
RECURSIVE SumTo(_, _)
\* f[0] + ... + f[n-1]   (np.sum / sum over a vector of length n)
SumTo(f, n) == IF n <= 0 THEN 0 ELSE f[n - 1] + SumTo(f, n - 1)

Len0(f) == Cardinality(DOMAIN f)

Empty == [k \in {} |-> 0]

(* ------------------------------ checkEV ------------------------------- *)
\* One entry of the vector  laxity < 0  or  laxity > 1  with
\* laxity = 1 - e / ((d - a) * r * timeint)  in IEEE arithmetic: a zero
\* denominator gives +-inf (or nan for 0/0, which compares false).
LaxityOut(ev) ==
    LET den == (ev[3] - ev[2]) * ev[4] * timeint
        e == ev[1]
    IN  IF den > 0 THEN e > den \/ e < 0
        ELSE IF den < 0 THEN e < den \/ e > 0
        ELSE e # 0

\* checkEV without its laxity test.
checkEV_NoLaxity(EV, time) ==
    LET m == Len0(EV)
        cnt(P(_)) == Cardinality({i \in DOMAIN EV : P(EV[i])})
        NonPos(ev) == ev[1] <= 0
        BadDur(ev) == ev[3] - ev[2] <= 0
        Late(ev) == time - ev[3] < 0
    IN  [k \in 0..4 |->
           CASE k = 0 -> IF m <= 0 THEN 1 ELSE 0
             [] k = 1 -> IF cnt(NonPos) > 0 THEN 1 ELSE 0
             [] k = 2 -> IF cnt(BadDur) > 0 THEN 1 ELSE 0
             [] k = 3 -> IF cnt(Late) > 0 THEN 1 ELSE 0
             [] k = 4 -> 0]

checkEV(EV, time) ==
    LET m == Len0(EV)
        cnt(P(_)) == Cardinality({i \in DOMAIN EV : P(EV[i])})
        NonPos(ev) == ev[1] <= 0
        BadDur(ev) == ev[3] - ev[2] <= 0
        Late(ev) == time - ev[3] < 0
    IN  [k \in 0..4 |->
           CASE k = 0 -> IF m <= 0 THEN 1 ELSE 0
             [] k = 1 -> IF cnt(NonPos) > 0 THEN 1 ELSE 0
             [] k = 2 -> IF cnt(BadDur) > 0 THEN 1 ELSE 0
             [] k = 3 -> IF cnt(Late) > 0 THEN 1 ELSE 0
             [] k = 4 -> IF cnt(LaxityOut) > 0 THEN 1 ELSE 0]

(* ---------------------------- getActiveEV ----------------------------- *)
\* The charger indices with active = 1, in increasing order (chargerID).
RECURSIVE ActiveIds(_, _)
ActiveIds(ch, n) ==
    IF n <= 0 THEN <<>>
    ELSE IF ch[n - 1].active = 1 THEN Append(ActiveIds(ch, n - 1), n - 1)
         ELSE ActiveIds(ch, n - 1)

ClampRow(row, horizon) ==
    IF row[2] > horizon THEN <<row[1], horizon - 1, row[3]>> ELSE row

\* Returns <<ActiveEV, chargerID>>, both indexed by the position aev.
getActiveEV(ch, nAll, nActive, horizon) ==
    LET ids == ActiveIds(ch, nAll)
    IN  <<[aev \in 0..(nActive - 1) |-> ClampRow(ch[ids[aev + 1]].EV, horizon)],
          [aev \in 0..(nActive - 1) |-> ids[aev + 1]]>>

\* np.round(., decimals=6): the model's energies are whole numbers, which
\* lie on the 1e-6 grid, so rounding to that grid returns the value itself.
round6(e) == e

(* ------------------------------ AlgLP2v2 ------------------------------ *)
\* LP_A1 with the column offset m*c1 left out of the index.
LP_A1_NoOffset(m, time) ==
    [c1 \in 0..(time - 1) |->
       [k \in 0..(m * time - 1) |->
          IF \E c2 \in 0..(m - 1) : k = c2 THEN 1 ELSE 0]]

\* Inequality matrix: row c1 has a 1 at the columns c2 + m*c1, c2 in 0..m-1.
LP_A1(m, time) ==
    [c1 \in 0..(time - 1) |->
       [k \in 0..(m * time - 1) |->
          IF \E c2 \in 0..(m - 1) : k = c2 + m * c1 THEN 1 ELSE 0]]

\* LP_Aeq without the multiplication by timeint.
LP_Aeq_NoTimeint(m, time, tint) ==
    [i \in 0..(m - 1) |->
       [k \in 0..(m * time - 1) |->
          IF \E c1 \in 0..(time - 1) : k = m * c1 + i THEN 1 ELSE 0]]

\* Equality matrix: an identity block per time step, times timeint.
LP_Aeq(m, time, tint) ==
    [i \in 0..(m - 1) |->
       [k \in 0..(m * time - 1) |->
          (IF \E c1 \in 0..(time - 1) : k = m * c1 + i THEN 1 ELSE 0) * tint]]

\* LP_bounds with the peak rate as upper bound at every step.
LP_bounds_NoDeadline(EV, m, time) ==
    [k \in 0..(m * time - 1) |-> <<0, EV[k % m][3]>>]

\* LP_bounds that also admits the step c1 = remaining parking time.
LP_bounds_Inclusive(EV, m, time) ==
    [k \in 0..(m * time - 1) |->
       LET c1 == k \div m
           c2 == k % m
       IN  <<0, IF c1 <= EV[c2][2] THEN EV[c2][3] ELSE 0>>]

\* Upper bound of variable c2 + m*c1: the peak rate while c1 < remaining
\* parking time, else 0.  (The lower bound is 0 throughout.)
LP_bounds(EV, m, time) ==
    [k \in 0..(m * time - 1) |->
       LET c1 == k \div m
           c2 == k % m
       IN  <<0, IF c1 < EV[c2][2] THEN EV[c2][3] ELSE 0>>]

\* LP_f with the same weight at every step of the parking window.
LP_f_Flat(EV, m, time) ==
    [k \in 0..(m * time - 1) |->
       LET c1 == k \div m
           c2 == k % m
       IN  IF c1 < EV[c2][2] THEN 1 ELSE 0]

\* Cost vector: c1 + 1 while c1 < remaining parking time, else 0.
LP_f(EV, m, time) ==
    [k \in 0..(m * time - 1) |->
       LET c1 == k \div m
           c2 == k % m
       IN  IF c1 < EV[c2][2] THEN c1 + 1 ELSE 0]

RECURSIVE DotTo(_, _, _)
\* row[0] * x[1] + ... + row[k-1] * x[k]
DotTo(row, x, k) ==
    IF k = 0 THEN 0 ELSE row[k - 1] * x[k] + DotTo(row, x, k - 1)

\* row . x over the entries x holds so far (x is a sequence: x[k+1] is
\* variable k of the program).
Dot(row, x) == DotTo(row, x, Len(x))

RECURSIVE GridPoints(_, _, _, _, _, _)
\* The grid vectors of length k within the bounds whose partial sums do not
\* yet exceed an inequality or an equality right-hand side (the matrices of
\* AlgLP2v2 and the variables are non-negative, so such a prefix is the only
\* kind that extends to a feasible point).  A row with coefficient 0 at the
\* new entry keeps the partial sum its prefix was admitted with.
GridPoints(k, A_ub, b_ub, A_eq, b_eq, bnds) ==
    IF k = 0 THEN {<<>>}
    ELSE {q \in {Append(p, v) :
                   p \in GridPoints(k - 1, A_ub, b_ub, A_eq, b_eq, bnds),
                   v \in (bnds[k - 1][1] * RateDen)..(bnds[k - 1][2] * RateDen)} :
            /\ \A r \in DOMAIN A_ub :
                  A_ub[r][k - 1] = 0 \/ Dot(A_ub[r], q) <= b_ub[r] * RateDen
            /\ \A r \in DOMAIN A_eq :
                  A_eq[r][k - 1] = 0 \/ Dot(A_eq[r], q) <= b_eq[r] * RateDen}

\* scipy.optimize.linprog: the results a solver may return.  success is
\* true exactly when the constraint set is non-empty, and x is then a
\* minimiser of c . x on the rate grid.
linprog(c, A_ub, b_ub, A_eq, b_eq, bnds) ==
    LET n == Len0(c)
        Feas == {x \in GridPoints(n, A_ub, b_ub, A_eq, b_eq, bnds) :
                   \A r \in DOMAIN A_eq : Dot(A_eq[r], x) = b_eq[r] * RateDen}
        costs == {Dot(c, x) : x \in Feas}
        best == CHOOSE v \in costs : \A w \in costs : v <= w
        Opt == {x \in Feas : Dot(c, x) = best}
    IN  IF Feas = {} THEN {[success |-> FALSE, x |-> <<>>]}
        ELSE {[success |-> TRUE, x |-> x] : x \in Opt}

\* Extract reading x vehicle-major instead of time-major.
Extract_VehicleMajor(res, m, time) ==
    IF res.success
    THEN [i \in 0..(m - 1) |-> [c1 \in 0..(time - 1) |-> res.x[time * i + c1 + 1]]]
    ELSE [i \in 0..(m - 1) |-> [c1 \in 0..(time - 1) |-> (-1) * RateDen]]

\* Schedule extraction from one solver result.
Extract(res, m, time) ==
    IF res.success
    THEN [i \in 0..(m - 1) |-> [c1 \in 0..(time - 1) |-> res.x[m * c1 + i + 1]]]
    ELSE [i \in 0..(m - 1) |-> [c1 \in 0..(time - 1) |-> (-1) * RateDen]]

\* The set of <<schedule, feasible>> pairs AlgLP2v2 may return.
AlgLP2v2(EV, powermax, tint, time) ==
    LET m == Len0(EV)
        beq == [i \in 0..(m - 1) |-> EV[i][1]]
    IN  {<<Extract(res, m, time), IF res.success THEN 1 ELSE 0>> :
           res \in linprog(LP_f(EV, m, time), LP_A1(m, time), powermax,
                           LP_Aeq(m, time, tint), beq, LP_bounds(EV, m, time))}

(* ---------------------------- updateCharger --------------------------- *)
\* Energy without the multiplication by the interval length.
Energy_NoTimeint(r, tint) == r \div RateDen

\* Energy of a grid rate held for one interval.
Energy(r, tint) == (r * tint) \div RateDen

\* updateCharger that gives a parked, already active charger its full
\* demand again instead of subtracting the energy delivered.
updateCharger_Reset(oldcharger, AllEV, tt, current_rate, tint) ==
    [ii \in DOMAIN AllEV |->
       IF tt > AllEV[ii][2] /\ tt < AllEV[ii][3]
       THEN [active |-> 1,
             EV |-> <<AllEV[ii][1], AllEV[ii][3] - tt, AllEV[ii][4]>>]
       ELSE [active |-> 0, EV |-> <<0, 0, 0>>]]

\* updateCharger that leaves the remaining parking time of an already
\* active charger as it was.
updateCharger_StaleParking(oldcharger, AllEV, tt, current_rate, tint) ==
    [ii \in DOMAIN AllEV |->
       IF tt > AllEV[ii][2] /\ tt < AllEV[ii][3]
       THEN IF oldcharger[ii].active = 1
            THEN [active |-> 1,
                  EV |-> <<oldcharger[ii].EV[1] - Energy(current_rate[ii], tint),
                           oldcharger[ii].EV[2], AllEV[ii][4]>>]
            ELSE [active |-> 1,
                  EV |-> <<AllEV[ii][1], AllEV[ii][3] - tt, AllEV[ii][4]>>]
       ELSE [active |-> 0, EV |-> <<0, 0, 0>>]]

updateCharger(oldcharger, AllEV, tt, current_rate, tint) ==
    [ii \in DOMAIN AllEV |->
       IF tt > AllEV[ii][2] /\ tt < AllEV[ii][3]
       THEN IF oldcharger[ii].active = 1
            THEN [active |-> 1,
                  EV |-> <<oldcharger[ii].EV[1] - Energy(current_rate[ii], tint),
                           AllEV[ii][3] - tt, AllEV[ii][4]>>]
            ELSE [active |-> 1,
                  EV |-> <<AllEV[ii][1], AllEV[ii][3] - tt, AllEV[ii][4]>>]
       ELSE [active |-> 0, EV |-> <<0, 0, 0>>]]

(* --------------------------- getPredictReady -------------------------- *)
\* calcs.getPredictReady walks the active chargers with a row counter into
\* schedule; it raises IndexError when a charger that still needs energy
\* (demand >= 0.1) has no row, or when the 99 % loop runs off the row.
PredictReadyRaises(ch, sched, tint) ==
    LET ids == ActiveIds(ch, Len0(ch))
        rows == Len0(sched)
    IN  \E k \in 1..Len(ids) :
          LET demand == ch[ids[k]].EV[1]
          IN  /\ demand * 10 >= 1
              /\ \/ k - 1 >= rows
                 \/ LET total == SumTo(sched[k - 1], Len0(sched[k - 1]))
                    IN  tint * total * 100 = demand * 99 * RateDen

(* ------------------------------- state -------------------------------- *)
\* An attribute or local that has not been assigned yet holds Unset when it
\* is a number (no assignment of the program produces this value) and the
\* empty table when it is a list or a matrix.
Unset == 0 - 2

Demands == 0..MaxDemand
Arrivals == 0..MaxArrival
Departures == 1..(opt_horizon + 1)
Peaks == 1..MaxPeak
Vehicles == Demands \X Arrivals \X Departures \X Peaks

\* Before EVModel(...) runs: the vehicle table getACN loaded and shuffled,
\* and the constructor argument tstep.
Init ==
    /\ pc = "new"
    /\ inCtor = TRUE
    /\ \E n \in 0..MaxEV : allEV \in [0..(n - 1) -> Vehicles]
    /\ tstep \in 1..MaxTstep
    /\ numAllEV = Unset /\ powerCap = Empty /\ rate = Empty
    /\ chargerNew = Empty /\ charger = Empty
    /\ chargerIDNew = Empty /\ chargerID = Empty
    /\ activeEV = Empty /\ numActiveEV = Unset /\ schedule = Empty
    /\ feasible = Unset /\ t = Unset /\ left = 0
    /\ histSchedule = Empty /\ lpCalls = 0

\* Lines 163-174 of __init__: the charger table at interval 0.
InitCharger(EVs) ==
    [i \in DOMAIN EVs |->
       IF 0 >= EVs[i][2] /\ 0 < EVs[i][3]
       THEN [active |-> 1, EV |-> <<EVs[i][1], EVs[i][3], EVs[i][4]>>]
       ELSE [active |-> 0, EV |-> <<0, 0, 0>>]]

\* EVModel.__init__ up to the call of update(): raises EVError when checkEV
\* reports an error code, else builds the state and enters the update loop.
Construct ==
    /\ pc = "new"
    /\ numAllEV' = Len0(allEV)
    /\ IF SumTo(checkEV(allEV, opt_horizon), 5) > 0
       THEN /\ pc' = "EVError"
            /\ UNCHANGED <<powerCap, rate, chargerNew, t, left>>
       ELSE /\ \E cap \in 1..MaxCap :
                  powerCap' = [k \in 0..(opt_horizon - 1) |-> cap]
            /\ rate' = [i \in DOMAIN allEV |-> [c \in 0..(tmax - 1) |-> 0]]
            /\ chargerNew' = InitCharger(allEV)
            /\ t' = -1
            /\ left' = tstep
            /\ pc' = "loop"
    /\ UNCHANGED <<inCtor, allEV, tstep, charger, chargerIDNew, chargerID,
                   activeEV, numActiveEV, schedule, feasible, histSchedule,
                   lpCalls>>

\* Line 195 with the loop guard always true.
NeedsSolve_Always(nAct) == TRUE

\* Line 195: the LP is formulated only when some charger is active.
NeedsSolve(nAct) == nAct > 0

\* CommitRate writing column 0 of the schedule whatever the solver reported.
CommitRate_Always(rt, ti, id, sched, feas) ==
    LET hit(i) == {aev \in DOMAIN id : id[aev] = i}
    IN  [i \in DOMAIN rt |-> [c \in DOMAIN rt[i] |->
           IF c = ti /\ hit(i) # {}
           THEN sched[CHOOSE aev \in hit(i) : TRUE][0]
           ELSE rt[i][c]]]

\* Lines 223-230: the rate matrix after the commit of interval ti
\* (rate[chargerID[aev]][ti] = schedule[aev][0] when feasible).
CommitRate(rt, ti, id, sched, feas) ==
    IF feas = 1
    THEN LET hit(i) == {aev \in DOMAIN id : id[aev] = i}
         IN  [i \in DOMAIN rt |-> [c \in DOMAIN rt[i] |->
                IF c = ti /\ hit(i) # {}
                THEN sched[CHOOSE aev \in hit(i) : TRUE][0]
                ELSE rt[i][c]]]
    ELSE rt

\* Lines 223-237 for interval ti, after the Gather/Solve part produced
\* id, sched and feas (solved: whether AlgLP2v2 ran).
Commit(ti, id, sched, feas, solved) ==
    LET newRate == IF solved THEN CommitRate(rate, ti, id, sched, feas) ELSE rate
    IN  IF ti >= tmax
        THEN \* rate has no column ti: line 228 or line 235 raises IndexError
             /\ pc' = "IndexError"
             /\ left' = 0
             /\ IF solved /\ feas = 1
                THEN UNCHANGED <<charger, chargerID>>
                ELSE charger' = chargerNew /\ chargerID' = id
             /\ UNCHANGED <<rate, chargerNew, t>>
        ELSE /\ rate' = newRate
             /\ chargerID' = id
             /\ chargerNew' = updateCharger(chargerNew, allEV, ti + 1,
                                  [i \in DOMAIN newRate |-> newRate[i][ti]],
                                  timeint)
             \* line 232 binds charger to the list that updateCharger then
             \* changes in place (its line 146: charger = oldcharger)
             /\ charger' = chargerNew'
             /\ t' = t + 1
             /\ left' = left - 1
             /\ pc' = "loop"

\* One pass of the loop of update(): lines 187-237 for ti = t + 1.
Interval ==
    /\ pc = "loop"
    /\ left > 0
    /\ LET ti == t + 1
           nAct == SumTo([ii \in 0..(numAllEV - 1) |-> chargerNew[ii].active],
                         numAllEV)
       IN  /\ numActiveEV' = nAct
           /\ IF NeedsSolve(nAct)
              THEN LET g == getActiveEV(chargerNew, numAllEV, nAct, opt_horizon)
                       snap == [aev \in DOMAIN g[1] |->
                                  <<round6(g[1][aev][1]), g[1][aev][2],
                                    g[1][aev][3]>>]
                   IN  /\ activeEV' = snap
                       /\ chargerIDNew' = g[2]
                       /\ lpCalls' = lpCalls + 1
                       /\ \E out \in AlgLP2v2(snap, powerCap, timeint, opt_horizon) :
                            /\ schedule' = out[1]
                            /\ feasible' = out[2]
                            /\ Commit(ti, g[2], out[1], out[2], TRUE)
              ELSE /\ chargerIDNew' = Empty
                   /\ schedule' = Empty
                   /\ UNCHANGED <<activeEV, feasible, lpCalls>>
                   /\ Commit(ti, Empty, Empty, 0, FALSE)
    /\ UNCHANGED <<inCtor, allEV, numAllEV, tstep, powerCap, histSchedule>>

\* Lines 239-256 of update(), after the loop: the schedule and histSchedule
\* slices and the statistics.
Finish ==
    /\ pc = "loop"
    /\ left = 0
    /\ IF Len0(schedule) = 0
       THEN \* self.schedule[0] on a matrix without rows
            /\ pc' = "IndexError"
            /\ UNCHANGED <<schedule, histSchedule, inCtor>>
       ELSE /\ schedule' = [i \in DOMAIN schedule |->
                              [c \in 0..(Len0(schedule[0]) - t - 1) |->
                                 schedule[i][c]]]
            /\ histSchedule' = [i \in DOMAIN rate |->
                                  [c \in 0..(t - 1) |-> rate[i][c]]]
            /\ IF PredictReadyRaises(charger, schedule', timeint)
               THEN pc' = "IndexError" /\ UNCHANGED inCtor
               ELSE pc' = "ready" /\ inCtor' = FALSE
    /\ UNCHANGED <<allEV, numAllEV, tstep, powerCap, rate, chargerNew, charger,
                   chargerIDNew, chargerID, activeEV, numActiveEV, feasible,
                   t, left, lpCalls>>

\* A caller invokes update() on a constructed model (also after an update
\* that raised).
Update ==
    /\ \/ pc = "ready"
       \/ pc = "IndexError" /\ ~inCtor
    /\ pc' = "loop"
    /\ left' = tstep
    /\ feasible' = Unset
    /\ UNCHANGED <<inCtor, allEV, numAllEV, tstep, powerCap, rate, chargerNew,
                   charger, chargerIDNew, chargerID, activeEV, numActiveEV,
                   schedule, t, histSchedule, lpCalls>>

Next == Construct \/ Interval \/ Finish \/ Update

Spec == Init /\ [][Next]_vars

(* ============================== claims ================================ *)
\* Lines 157-176 of __init__ have run: the attributes of the loop exist.
Built == pc \in {"loop", "ready", "IndexError"}

\* The state right after a pass of the loop, before the slices of line 242.
AfterInterval == pc = "loop" /\ left < tstep

\* ... of a pass that called AlgLP2v2.
AfterSolve == AfterInterval /\ numActiveEV > 0

ColSum(M, c) == SumTo([i \in DOMAIN M |-> M[i][c]], Len0(M))
RowSum(M, i) == SumTo(M[i], Len0(M[i]))

\* Interval s lies in the parking session of vehicle i as the controller
\* sees it (InitCharger for s = 0, updateCharger after).
InSession(i, s) ==
    IF s = 0 THEN 0 >= allEV[i][2] /\ 0 < allEV[i][3]
    ELSE s > allEV[i][2] /\ s < allEV[i][3]

SessionSum(i) ==
    SumTo([s \in 0..(tmax - 1) |-> IF InSession(i, s) THEN rate[i][s] ELSE 0],
          tmax)

\* C1: after a feasible solve the schedule's rates sum to at most
\* powerCap[c] at every horizon step c, and at all times every column of
\* the rate history sums to at most powerCap[0].
C1_PowerCap ==
    /\ (AfterSolve /\ feasible = 1) =>
          \A c \in 0..(opt_horizon - 1) :
             ColSum(schedule, c) <= powerCap[c] * RateDen
    /\ Built =>
          \A c \in 0..(tmax - 1) : ColSum(rate, c) <= powerCap[0] * RateDen

\* Two vehicles whose peak rate exceeds the cap were both served in the
\* interval just committed, and together they use the whole cap.
C1_Witness ==
    /\ AfterSolve /\ feasible = 1 /\ numActiveEV >= 2
    /\ \A aev \in DOMAIN activeEV :
          /\ activeEV[aev][3] > powerCap[0]
          /\ rate[chargerID[aev]][t] > 0
    /\ ColSum(rate, t) = powerCap[0] * RateDen

\* C2: after a feasible solve, for every row i of the snapshot the schedule
\* delivers exactly the snapshot's remaining energy:
\* sum over c of schedule[i][c] * timeint = activeEV[i][1].
C2_ExactEnergy ==
    (AfterSolve /\ feasible = 1) =>
       \A i \in DOMAIN activeEV :
          timeint * RowSum(schedule, i) = activeEV[i][1] * RateDen

\* A feasible schedule for two vehicles with different remaining energies,
\* one of them charged in more than one horizon step.
C2_Witness ==
    /\ AfterSolve /\ feasible = 1 /\ numActiveEV >= 2
    /\ activeEV[0][1] # activeEV[1][1]
    /\ \E i \in DOMAIN schedule :
          Cardinality({c \in DOMAIN schedule[i] : schedule[i][c] > 0}) >= 2

\* C3: when the LP of the last interval of a vehicle's session
\* (ti = departure - 1) is feasible, the rates dispatched to it over its
\* session deliver exactly its demand.
C3_DemandMet ==
    (AfterSolve /\ feasible = 1) =>
       \A aev \in DOMAIN chargerID :
          LET i == chargerID[aev]
          IN  t = allEV[i][3] - 1 =>
                 timeint * SessionSum(i) = allEV[i][1] * RateDen

\* A vehicle charged in at least two intervals of its session has just had
\* its last interval committed.
C3_Witness ==
    /\ AfterSolve /\ feasible = 1
    /\ \E aev \in DOMAIN chargerID :
          LET i == chargerID[aev]
          IN  /\ t = allEV[i][3] - 1
              /\ Cardinality({s \in 0..t : rate[i][s] > 0}) >= 2

\* C4: a pass of the loop whose LP is infeasible leaves column ti of the
\* rate history all zero, completes (the counter moves to ti and the loop
\* goes on), and every charger active before and after it keeps its
\* remaining energy.
C4_InfeasibleZero ==
    [][(pc = "loop" /\ left > 0 /\ lpCalls' = lpCalls + 1 /\ feasible' = 0) =>
         /\ \A i \in DOMAIN rate : rate'[i][t + 1] = 0
         /\ t' = t + 1 /\ pc' = "loop" /\ left' = left - 1
         /\ \A i \in DOMAIN chargerNew :
               (chargerNew[i].active = 1 /\ chargerNew'[i].active = 1) =>
                  chargerNew'[i].EV[1] = chargerNew[i].EV[1]]_vars

\* An infeasible interval has been processed and a charger that was active
\* in it is still active, with energy left to deliver.
C4_Witness ==
    /\ AfterSolve /\ feasible = 0
    /\ \E aev \in DOMAIN chargerID :
          /\ chargerNew[chargerID[aev]].active = 1
          /\ chargerNew[chargerID[aev]].EV[1] > 0

\* C5: over a completed pass of the loop, a charger active before and after
\* it has new energy = old energy - dispatched rate * timeint, with
\* 0 <= new energy <= old energy.
C5_EnergyMonotone ==
    [][(pc = "loop" /\ left > 0 /\ t' = t + 1) =>
         \A i \in DOMAIN chargerNew :
            (chargerNew[i].active = 1 /\ chargerNew'[i].active = 1) =>
               /\ chargerNew'[i].EV[1] * RateDen =
                     chargerNew[i].EV[1] * RateDen - rate'[i][t'] * timeint
               /\ 0 <= chargerNew'[i].EV[1]
               /\ chargerNew'[i].EV[1] <= chargerNew[i].EV[1]]_vars

\* A charger received a positive rate in the interval just processed and is
\* still active with part of its demand left.
C5_Witness ==
    /\ AfterSolve /\ feasible = 1
    /\ \E i \in DOMAIN chargerNew :
          /\ chargerNew[i].active = 1
          /\ rate[i][t] > 0
          /\ chargerNew[i].EV[1] > 0
          /\ chargerNew[i].EV[1] < allEV[i][1]

\* C6 as stated: every matrix AlgLP2v2 returns is zero at the steps
\* c >= remaining parking time of the row's vehicle.
C6_Original ==
    AfterSolve =>
       \A i \in DOMAIN activeEV : \A c \in 0..(opt_horizon - 1) :
          c >= activeEV[i][2] => schedule[i][c] = 0

\* C6 amended: every matrix AlgLP2v2 returns with feasible = 1 is zero at
\* the steps c >= remaining parking time of the row's vehicle.
C6_ZeroAfterDeparture ==
    (AfterSolve /\ feasible = 1) =>
       \A i \in DOMAIN activeEV : \A c \in 0..(opt_horizon - 1) :
          c >= activeEV[i][2] => schedule[i][c] = 0

\* A feasible schedule of a vehicle that leaves before the end of the
\* horizon and needs every step it has.
C6_Witness ==
    /\ AfterSolve /\ feasible = 1
    /\ \E i \in DOMAIN activeEV :
          /\ activeEV[i][2] < opt_horizon
          /\ \A c \in 0..(activeEV[i][2] - 1) : schedule[i][c] > 0

\* C7 as stated: updateCharger leaves the table it is given unchanged, so
\* after a pass of the loop charger holds the table the pass started from.
C7_ChargerKeepsOldState ==
    [][(pc = "loop" /\ left > 0 /\ t' = t + 1) => charger' = chargerNew]_vars

C9_FullLedger ==
    pc = "ready" =>
       histSchedule = [i \in DOMAIN rate |-> [c \in 0..t |-> rate[i][c]]]

\* The preconditions of the vehicle table, as the claim lists them.
PreconditionViolated(EVs) ==
    \/ DOMAIN EVs = {}
    \/ \E i \in DOMAIN EVs : EVs[i][1] <= 0
    \/ \E i \in DOMAIN EVs : EVs[i][3] <= EVs[i][2]
    \/ \E i \in DOMAIN EVs : EVs[i][3] > opt_horizon
    \/ \E i \in DOMAIN EVs :
          LET den == (EVs[i][3] - EVs[i][2]) * EVs[i][4] * timeint
          IN  den <= 0 \/ EVs[i][1] < 0 \/ EVs[i][1] > den

C11_FrontLoaded ==
    (/\ AfterSolve /\ feasible = 1 /\ numActiveEV = 1
     /\ \A c \in DOMAIN powerCap : activeEV[0][3] <= powerCap[c]) =>
       \A c \in 0..(opt_horizon - 1) :
          LET before == SumTo(schedule[0], c)
              rest == activeEV[0][1] * RateDen - timeint * before
              full == timeint * activeEV[0][3] * RateDen
          IN  timeint * schedule[0][c] = IF full <= rest THEN full ELSE rest

\* A single vehicle under a cap above its peak rate is scheduled at its peak
\* rate in step 0, at a smaller positive rate in step 1 and not at all in
\* step 2, although it stays parked for all three steps.
C11_Witness ==
    /\ AfterSolve /\ feasible = 1 /\ numActiveEV = 1
    /\ activeEV[0][3] <= powerCap[0]
    /\ activeEV[0][2] = 3
    /\ schedule[0][0] = activeEV[0][3] * RateDen
    /\ schedule[0][1] > 0 /\ schedule[0][1] < schedule[0][0]
    /\ schedule[0][2] = 0

\* C12 as stated: at the start of every interval (the charger table
\* chargerNew describes interval t + 1) a vehicle is active if and only if
\* arrival <= t + 1 < departure, and a vehicle in its arrival interval holds
\* its full demand and remaining parking = departure - (t + 1).
C12_ActiveInWindow ==
    Built =>
       \A i \in DOMAIN chargerNew :
          /\ chargerNew[i].active = 1 <=>
                (allEV[i][2] <= t + 1 /\ t + 1 < allEV[i][3])
          /\ (allEV[i][2] = t + 1 /\ t + 1 < allEV[i][3]) =>
                chargerNew[i].EV = <<allEV[i][1], allEV[i][3] - (t + 1), allEV[i][4]>>

Min(a, b) == IF a <= b THEN a ELSE b

\* The vehicle with state ev = <<energy, remaining parking, peak>> cannot
\* receive its energy within its parking window: even alone, at
\* min(peak, cap) in every step it has, it gets less than it needs.
Stuck(ev) ==
    ev[1] > timeint * SumTo([c \in 0..(opt_horizon - 1) |->
                               IF c < ev[2] THEN Min(ev[3], powerCap[c]) ELSE 0],
                            opt_horizon)

\* C13: a pass of the loop that starts with an active vehicle that cannot
\* receive its remaining energy within its remaining parking window has an
\* infeasible LP and dispatches zero rate to every vehicle, and the vehicle,
\* if still parked after the pass, is again in that condition; so the LP
\* stays infeasible with zero dispatch until the vehicle departs.
C13_InfeasibleUntilDeparture ==
    [][(/\ pc = "loop" /\ left > 0
        /\ \E i \in DOMAIN chargerNew :
              chargerNew[i].active = 1 /\ Stuck(chargerNew[i].EV)) =>
         /\ feasible' = 0
         /\ t' = t + 1
         /\ \A i \in DOMAIN rate : rate'[i][t + 1] = 0
         /\ \A i \in DOMAIN chargerNew :
               (/\ chargerNew[i].active = 1 /\ Stuck(chargerNew[i].EV)
                /\ chargerNew'[i].active = 1) => Stuck(chargerNew'[i].EV)]_vars

\* An infeasible interval has been processed in which one vehicle could not
\* be served within its window and another one could; the first is still
\* parked, and still cannot be served, at the start of the next interval.
C13_Witness ==
    /\ AfterSolve /\ feasible = 0
    /\ \E aev, bev \in DOMAIN activeEV :
          /\ Stuck(activeEV[aev]) /\ ~Stuck(activeEV[bev])
          /\ activeEV[bev][1] > 0
          /\ rate[chargerID[bev]][t] = 0
          /\ chargerNew[chargerID[aev]].active = 1
          /\ Stuck(chargerNew[chargerID[aev]].EV)

\* C14 as stated: in the snapshot a pass of the loop builds, every row has
\* the energy and peak rate of its charger and remaining parking time
\* min(the charger's remaining parking time, opt_horizon - 1).
C14_SnapshotClamped ==
    [][(pc = "loop" /\ left > 0 /\ lpCalls' = lpCalls + 1) =>
         \A aev \in DOMAIN activeEV' :
            LET ev == chargerNew[chargerIDNew'[aev]].EV
            IN  /\ activeEV'[aev][1] = ev[1]
                /\ activeEV'[aev][3] = ev[3]
                /\ activeEV'[aev][2] = Min(ev[2], opt_horizon - 1)]_vars

\* C15 as stated: every pass of the loop of update(), whatever the value of
\* the interval counter, processes interval t + 1: the counter advances by
\* one, one pass fewer is left in the call, and the loop goes on without
\* failing.
C15_NoFailureState ==
    [][(pc = "loop" /\ left > 0) =>
         (t' = t + 1 /\ left' = left - 1 /\ pc' = "loop")]_vars

\* C16 as stated: when the last pass of the loop of an update() call found
\* no active charger, the part of update() after the loop completes: the
\* call returns, exposing a schedule without rows, the interval counter and
\* the rate history.
C16_IdleUpdateCompletes ==
    [][(pc = "loop" /\ left = 0 /\ numActiveEV = 0) =>
         /\ pc' = "ready"
         /\ schedule' = Empty
         /\ t' = t /\ rate' = rate]_vars

\* What lines 187-220 make of the charger table ch: the flag AlgLP2v2
\* returns for its snapshot (the same for every result the solver may pick).
LPFeasible(ch) ==
    LET nAct == SumTo([ii \in 0..(numAllEV - 1) |-> ch[ii].active], numAllEV)
        g == getActiveEV(ch, numAllEV, nAct, opt_horizon)
        snap == [aev \in DOMAIN g[1] |->
                   <<round6(g[1][aev][1]), g[1][aev][2], g[1][aev][3]>>]
    IN  \A out \in AlgLP2v2(snap, powerCap, timeint, opt_horizon) : out[2] = 1

\* C17: when the LP of interval ti is feasible and every charger active at
\* ti + 1 was already active at ti, the LP of interval ti + 1 (the one the
\* next pass builds from the advanced charger table and the same constant
\* power cap) is feasible.
C17_RecursiveFeasibility ==
    [][(/\ pc = "loop" /\ left > 0 /\ t' = t + 1
        /\ lpCalls' = lpCalls + 1 /\ feasible' = 1
        /\ \A i \in DOMAIN chargerNew :
              chargerNew'[i].active = 1 => chargerNew[i].active = 1
        /\ \E i \in DOMAIN chargerNew : chargerNew'[i].active = 1) =>
         LPFeasible(chargerNew')]_vars

\* The LP of interval t >= 1 was feasible for two vehicles with energy left,
\* both of which were charged in interval t - 1 under a cap they used up.
C17_Witness ==
    /\ AfterSolve /\ feasible = 1 /\ t >= 1 /\ numActiveEV >= 2
    /\ \A aev \in DOMAIN activeEV :
          /\ activeEV[aev][1] > 0
          /\ rate[chargerID[aev]][t - 1] > 0
    /\ ColSum(rate, t - 1) = powerCap[0] * RateDen

\* The rates dispatched to vehicle i in the intervals 0..upto of its session.
Delivered(i, upto) ==
    SumTo([s \in 0..upto |-> IF InSession(i, s) THEN rate[i][s] ELSE 0],
          upto + 1)

\* The charger table (which describes the start of interval t + 1) and the
\* rate history agree.
LedgerConsistent ==
    Built =>
       \A i \in DOMAIN chargerNew :
          /\ IF chargerNew[i].active = 1
             THEN /\ chargerNew[i].EV[1] * RateDen =
                        allEV[i][1] * RateDen - timeint * Delivered(i, t)
                  /\ chargerNew[i].EV[2] = allEV[i][3] - (t + 1)
                  /\ chargerNew[i].EV[2] >= 1
             ELSE chargerNew[i].EV = <<0, 0, 0>>
          /\ \A s \in DOMAIN rate[i] :
                rate[i][s] # 0 => (s <= t /\ InSession(i, s))

\* C18: at the start of every interval t + 1 an active charger holds
\* energy = demand - timeint * (rates dispatched in the intervals <= t of
\* its session) and remaining parking = departure - (t + 1) >= 1, an
\* inactive charger holds (0, 0, 0), a rate is non-zero only at an interval
\* in which its charger was active, and no step changes a rate of an
\* interval already processed.
C18_LedgerConsistency ==
    [][/\ LedgerConsistent'
       /\ Built =>
             \A i \in DOMAIN rate : \A s \in 0..t :
                rate'[i][s] = rate[i][s]]_vars

\* A charger that was charged in two intervals of its session is still
\* active with part of its demand left, and another charger is inactive.
C18_Witness ==
    /\ AfterSolve /\ t >= 1
    /\ \E i, j \in DOMAIN chargerNew :
          /\ chargerNew[i].active = 1
          /\ rate[i][t - 1] > 0 /\ rate[i][t] > 0
          /\ chargerNew[i].EV[1] > 0
          /\ chargerNew[j].active = 0

====
